---------------------------- MODULE Spec2Model ----------------------------
(***************************************************************************)
(* State-machine model of the useInterviewSession hook (the live audio     *)
(* session of the mock interviewer): connection lifecycle, first-turn      *)
(* nudge, scheduled playback of inbound audio, interruption handling and   *)
(* transcript assembly.  Every asynchronous function of the hook is split  *)
(* at its awaits; each action below is one synchronous run of hook code    *)
(* between two suspension points.                                          *)
(***************************************************************************)
EXTENDS Integers, Sequences, FiniteSets, TLC

(* ------------------------------ bounds -------------------------------- *)
MaxConns == 2        \* connect() attempts that pass the guard
MaxMsgs == 2         \* inbound server messages
MaxPartsPerMsg == 2  \* audio parts carried by one message
MaxParts == 2        \* audio parts over all messages
MaxClock == 2        \* ticks of an output context's currentTime
MaxCalls == 3
MaxBlocks == 2        \* commands invoked on the hook after the mount effect
MaxTimeLimit == 2    \* the answer time limit, in timer ticks
MaxOverrun == 1      \* ticks of the countdown interval below zero
MaxStarts == 2       \* clicks on the start button of the setup screen

(* ------------------------------ values -------------------------------- *)
NULL == 0
NoError == "null"
NoText == << >>
NoJob == "null"
NoPersona == "null"
NoReport == "null"
Durations == {1, 2}
Fragments == {<<"a">>, <<" ">>}

VARIABLES
  \* React state exposed by the hook
  isConnected, isConnecting, error, transcript, isModelSpeaking, textBuffer,
  audioContextSuspended,
  \* refs
  audioContextRef, inputAudioContextRef, streamRef, sessionRef,
  nextStartTime, audioSources, currentInputTranscription,
  currentOutputTranscription, nudgeSent,
  \* props and environment
  apiKey,        \* TRUE iff a credential is configured
  onDisconnectCalls, \* number of calls of the onDisconnect prop so far
  nconn,         \* connect() attempts that passed the guard so far
  conn,          \* per attempt: connect() position, socket, onopen position,
                 \* output/input context state, microphone stream
  clock,         \* currentTime of each attempt's output context
  sched,         \* every source.start() call so far, in call order
  handlers,      \* onmessage handlers suspended at a decode
  resumes,       \* resumeAudio() calls suspended at a resume()
  commitPending, \* a setTranscript updater is queued and not yet applied
  wire,          \* text intents sent, in send order
  lives,         \* disconnect() calls so far
  nmsgs, nparts, \* inbound messages / audio parts received so far
  failedParts,   \* the audio parts whose decode was rejected
  flushes,       \* forced stop-all runs so far (interruption, regenerate)
  freshOut,      \* output fragments received since the last interruption
  turnSignalled, \* a turnComplete was handled and its commit is not applied yet
  previews,      \* preview texts shown since the model's pending text was
                 \* last committed or discarded
  inFrags, outFrags, \* the fragments received for each role since that
                 \* role's buffer was last emptied, in arrival order
  atSignal,      \* the pending buffers as they were when the turnComplete
                 \* whose commit is not applied yet was handled
  mounted,       \* the mount effect has run
  currentVolume, \* the published amplitude, as the mean square it is the root of
  media,         \* media intents sent, in send order
  nblocks,       \* onaudioprocess events so far
  captured,      \* the blocks those events delivered, in order
  ncalls,        \* commands invoked on the hook after the mount effect
  \* the interview screen's countdown
  settings,      \* settings.timeLimitSeconds
  timeLeft,      \* the remaining answer time
  interval,      \* the interval set by the last run of the timer effect is armed
  effectDeps,    \* the dependency values the timer effect last ran with
  \* the App component and the setup screen
  appState, jobDescription, persona,
  appTranscript, \* the App's transcript state
  isResearching, \* state of the setup screen shown last
  research,      \* handleStart() runs suspended at generateContent
  nstarts,       \* handleStart() runs so far
  \* the feedback screen
  fbLoading, fbError, fbReport,
  fbPc,          \* "none": not mounted; "effect": mounted, effect not run yet;
                 \* "await": generateFeedback suspended at generateContent;
                 \* "done": generateFeedback has returned
  fbStale,       \* suspended generateFeedback runs whose isMounted is false
  fbAsked        \* generateContent requests made by the feedback screen so far

obsVars == <<isConnected, isConnecting, error, audioContextSuspended>>
refVars == <<audioContextRef, inputAudioContextRef, streamRef, sessionRef, nudgeSent>>
connVars == <<nconn, conn, resumes, wire, lives>>
playVars == <<isModelSpeaking, nextStartTime, audioSources, clock, sched,
              handlers, nparts, flushes, failedParts>>
textVars == <<transcript, textBuffer, currentInputTranscription,
              currentOutputTranscription, commitPending, freshOut,
              turnSignalled, previews, inFrags, outFrags, atSignal>>
\* the props of the hook and what it has done to them
propVars == <<apiKey, onDisconnectCalls>>

\* the microphone capture: published amplitude, media intents, blocks so far
capVars == <<currentVolume, media, nblocks, captured>>

\* the interview screen's countdown
timerVars == <<settings, timeLeft, interval, effectDeps>>

\* the App component and the setup screen
appVars == <<appState, jobDescription, persona, appTranscript, isResearching,
             research, nstarts>>

\* the feedback screen
fbVars == <<fbLoading, fbError, fbReport, fbPc, fbStale, fbAsked>>

\* the state of the components around the hook
uiVars == <<timerVars, appVars, fbVars>>

vars == <<obsVars, refVars, connVars, playVars, textVars, propVars, capVars,
          uiVars, nmsgs, mounted, ncalls>>

Conns == 1..MaxConns

(* ------------------------------ helpers ------------------------------- *)
Max(a, b) == IF a >= b THEN a ELSE b

Remove(s, i) == [j \in 1..(Len(s) - 1) |-> IF j < i THEN s[j] ELSE s[j + 1]]

RECURSIVE TrimStart(_)
TrimStart(s) ==
  IF s = << >> THEN s
  ELSE IF Head(s) = " " THEN TrimStart(Tail(s)) ELSE s

RECURSIVE TrimEnd(_)
TrimEnd(s) ==
  IF s = << >> THEN s
  ELSE IF s[Len(s)] = " " THEN TrimEnd(SubSeq(s, 1, Len(s) - 1)) ELSE s

\* String.prototype.trim
Trim(s) == TrimEnd(TrimStart(s))

NoSignal == [inp |-> << >>, out |-> << >>]

NoConn == [pc |-> "none", sock |-> "none", onopen |-> "none",
           out |-> "none", inp |-> "none", mic |-> "none"]

Init ==
  /\ isConnected = FALSE /\ isConnecting = FALSE /\ error = NoError
  /\ transcript = << >> /\ isModelSpeaking = FALSE /\ textBuffer = << >>
  /\ audioContextSuspended = FALSE
  /\ audioContextRef = NULL /\ inputAudioContextRef = NULL
  /\ streamRef = NULL /\ sessionRef = NULL
  /\ nextStartTime = 0 /\ audioSources = {}
  /\ currentInputTranscription = << >> /\ currentOutputTranscription = << >>
  /\ nudgeSent = FALSE
  /\ apiKey \in BOOLEAN
  /\ onDisconnectCalls = 0
  /\ turnSignalled = FALSE
  /\ previews = {}
  /\ inFrags = << >> /\ outFrags = << >>
  /\ atSignal = NoSignal
  /\ nconn = 0
  /\ conn = [c \in Conns |-> NoConn]
  /\ clock = [c \in Conns |-> 0]
  /\ sched = << >> /\ handlers = << >> /\ resumes = << >>
  /\ commitPending = FALSE
  /\ wire = << >> /\ lives = 0 /\ nmsgs = 0 /\ nparts = 0 /\ flushes = 0
  /\ failedParts = {}
  /\ freshOut = << >>
  /\ mounted = FALSE
  /\ ncalls = 0
  /\ currentVolume = [sq |-> 0, n |-> 1]
  /\ media = << >> /\ nblocks = 0 /\ captured = << >>
  /\ settings = MaxTimeLimit
  /\ timeLeft = MaxTimeLimit
  /\ interval = FALSE
  /\ effectDeps = << >>
  /\ appState = "SETUP" /\ jobDescription = NoJob /\ persona = NoPersona
  /\ appTranscript = << >> /\ isResearching = FALSE
  /\ research = 0 /\ nstarts = 0
  /\ fbLoading = TRUE /\ fbError = NoError /\ fbReport = NoReport
  /\ fbPc = "none" /\ fbStale = 0 /\ fbAsked = 0

(* ------------------------- connection lifecycle ----------------------- *)
\* The values of isConnecting / isConnected that connect() reads: the
\* callback is memoised on [apiKey] alone, so it keeps the closure of the
\* render that created it, where both are the initial false.
connectSeesConnecting == FALSE
connectSeesConnected == FALSE

\* connect(), up to the await of getUserMedia.  s is the state the browser
\* creates the two audio contexts in.
connect(s) ==
  /\ mounted' = TRUE
  /\ IF ~apiKey \/ connectSeesConnecting \/ connectSeesConnected
     THEN UNCHANGED <<obsVars, refVars, connVars, playVars, textVars, propVars, capVars, uiVars, nmsgs>>
     ELSE /\ nconn < MaxConns
          /\ nconn' = nconn + 1
          /\ isConnecting' = TRUE
          /\ error' = NoError
          /\ audioContextRef' = nconn + 1
          /\ audioContextSuspended' = (s = "suspended")
          /\ inputAudioContextRef' = nconn + 1
          /\ conn' = [conn EXCEPT ![nconn + 1] =
                        [@ EXCEPT !.pc = "mic", !.out = s, !.inp = s]]
          /\ UNCHANGED <<isConnected, streamRef, sessionRef, nudgeSent,
                         resumes, wire, lives, playVars, textVars, propVars, capVars, uiVars, nmsgs>>

\* A command of the hook is invoked by the component that mounted it.
Command ==
  /\ mounted
  /\ ncalls < MaxCalls
  /\ ncalls' = ncalls + 1

\* useEffect on mount: connect()
Mount ==
  /\ ~mounted
  /\ UNCHANGED ncalls
  /\ \E s \in {"suspended", "running"} : connect(s)

\* retry, the hook's exposed command (retry: connect)
Retry ==
  /\ Command
  /\ \E s \in {"suspended", "running"} : connect(s)

\* The Retry Connection button of the error view
RetryClick ==
  /\ Command
  /\ error # NoError
  /\ \E s \in {"suspended", "running"} : connect(s)

\* getUserMedia resolves; connect() runs on to ai.live.connect and returns.
MicGranted(c) ==
  /\ conn[c].pc = "mic"
  /\ streamRef' = c
  /\ conn' = [conn EXCEPT ![c] =
                [@ EXCEPT !.pc = "done", !.mic = "live", !.sock = "connecting"]]
  /\ UNCHANGED <<obsVars, audioContextRef, inputAudioContextRef, sessionRef,
                 nudgeSent, nconn, resumes, wire, lives, playVars, textVars,
                 propVars, capVars, uiVars, nmsgs, mounted, ncalls>>

\* The catch block of connect() without setIsConnecting(false).
MicDeniedStaysConnecting(c) ==
  /\ conn[c].pc = "mic"
  /\ error' = "Connection failed."
  /\ conn' = [conn EXCEPT ![c] = [@ EXCEPT !.pc = "failed"]]
  /\ UNCHANGED <<isConnected, isConnecting, audioContextSuspended, refVars, nconn,
                 resumes, wire, lives, playVars, textVars, propVars, capVars, uiVars, nmsgs,
                 mounted, ncalls>>

\* getUserMedia rejects: the catch block of connect().
MicDenied(c) ==
  /\ conn[c].pc = "mic"
  /\ isConnecting' = FALSE
  /\ error' = "Connection failed."
  /\ conn' = [conn EXCEPT ![c] = [@ EXCEPT !.pc = "failed"]]
  /\ UNCHANGED <<isConnected, audioContextSuspended, refVars, nconn, resumes,
                 wire, lives, playVars, textVars, propVars, capVars, uiVars, nmsgs, mounted, ncalls>>

\* onopen, up to the await of sessionPromise.
OnOpen(c) ==
  /\ conn[c].sock = "connecting"
  /\ isConnected' = TRUE
  /\ isConnecting' = FALSE
  /\ conn' = [conn EXCEPT ![c] = [@ EXCEPT !.sock = "open", !.onopen = "await"]]
  /\ UNCHANGED <<error, audioContextSuspended, refVars, nconn, resumes, wire,
                 lives, playVars, textVars, propVars, capVars, uiVars, nmsgs, mounted, ncalls>>

\* The nudge guard without the nudgeSent flag.
NudgeDueUnguarded(handle) == handle # NULL

\* The first-turn nudge is due: guard shared by onopen and resumeAudio.
NudgeDue(handle) == handle # NULL /\ ~nudgeSent

\* onopen after the await: session handle, capture graph, nudge.
OnOpenCont(c) ==
  /\ conn[c].onopen = "await"
  /\ sessionRef' = c
  /\ conn' = [conn EXCEPT ![c] = [@ EXCEPT !.onopen = "done"]]
  /\ IF conn[c].out # "suspended" /\ NudgeDue(c)
     THEN /\ nudgeSent' = TRUE
          /\ wire' = Append(wire, [conn |-> c, kind |-> "nudge", life |-> lives])
     ELSE UNCHANGED <<nudgeSent, wire>>
  /\ UNCHANGED <<obsVars, audioContextRef, inputAudioContextRef, streamRef,
                 nconn, resumes, lives, playVars, textVars, propVars, capVars, uiVars, nmsgs, mounted, ncalls>>

OnClose(c) ==
  /\ conn[c].sock \in {"open", "errored"}
  /\ isConnected' = FALSE
  /\ isConnecting' = FALSE
  /\ conn' = [conn EXCEPT ![c] = [@ EXCEPT !.sock = "closed"]]
  /\ UNCHANGED <<error, audioContextSuspended, refVars, nconn, resumes, wire,
                 lives, playVars, textVars, propVars, capVars, uiVars, nmsgs, mounted, ncalls>>

OnError(c) ==
  /\ conn[c].sock \in {"connecting", "open"}
  /\ isConnected' = FALSE
  /\ isConnecting' = FALSE
  /\ error' = "The service is currently unavailable."
  /\ conn' = [conn EXCEPT ![c] = [@ EXCEPT !.sock = "errored"]]
  /\ UNCHANGED <<audioContextSuspended, refVars, nconn, resumes, wire, lives,
                 playVars, textVars, propVars, capVars, uiVars, nmsgs, mounted, ncalls>>

\* The state of attempt c's context when disconnect() closes nothing.
CloseSkipped(ref, c, st) == st

\* if (ref.current && ref.current.state !== 'closed') ref.current.close():
\* the state of attempt c's context afterwards.
CloseIfOpen(ref, c, st) == IF ref = c /\ st # "closed" THEN "closed" ELSE st

\* disconnect()
Disconnect ==
  /\ Command
  /\ lives' = lives + 1
  /\ conn' = [c \in Conns |->
               [conn[c] EXCEPT
                  !.mic = IF streamRef = c THEN "stopped" ELSE @,
                  !.out = CloseIfOpen(audioContextRef, c, @),
                  !.inp = CloseIfOpen(inputAudioContextRef, c, @)]]
  /\ isConnected' = FALSE
  /\ isConnecting' = FALSE
  /\ nudgeSent' = FALSE
  /\ UNCHANGED <<error, audioContextSuspended, audioContextRef,
                 inputAudioContextRef, streamRef, sessionRef, nconn, resumes,
                 wire, playVars, textVars, propVars, capVars, uiVars, nmsgs, mounted>>


(* ------------------------------- capture ------------------------------ *)
\* Samples and the threshold are in thousandths of full scale.
SILENCE_THRESHOLD == 5

\* Captured blocks: below the threshold, exactly at it, above it.
Blocks == {<<3, 4>>, <<5, 5>>, <<1, 7>>, <<5, 6>>}

\* What a stopped microphone track delivers.
Silence == <<0, 0>>

RECURSIVE SumSq(_)
\* for (i...) sum += inputData[i] * inputData[i]
SumSq(b) == IF b = << >> THEN 0 ELSE Head(b) * Head(b) + SumSq(Tail(b))

\* vol = Math.sqrt(sum / inputData.length), kept as the fraction under the
\* root.
Vol(b) == [sq |-> SumSq(b), n |-> Len(b)]

\* vol >= t
AtLeast(vol, t) == vol.sq >= t * t * vol.n

\* vol > t
Exceeds(vol, t) == vol.sq > t * t * vol.n

\* The capture callback with its first line left out.
HandleSeenAlways(handle) == TRUE

\* if (!sessionRef.current) return;
HandleSeen(handle) == handle # NULL

\* processor.onaudioprocess of attempt c, on the block b of its microphone.
OnAudioProcess(c, b) ==
  LET data == IF conn[c].mic = "live" THEN b ELSE Silence
      vol == Vol(data)
  IN /\ conn[c].onopen = "done"
     /\ conn[c].inp = "running"
     /\ nblocks < MaxBlocks
     /\ nblocks' = nblocks + 1
     /\ captured' = Append(captured, data)
     /\ IF ~HandleSeen(sessionRef)
        THEN UNCHANGED <<currentVolume, media>>
        ELSE /\ currentVolume' = vol
             /\ media' = (IF conn[c].out # "suspended" /\ Exceeds(vol, SILENCE_THRESHOLD)
                          THEN Append(media, [conn |-> sessionRef, block |-> nblocks + 1,
                                              life |-> lives])
                          ELSE media)
     /\ UNCHANGED <<obsVars, refVars, connVars, playVars, textVars, propVars,
                    uiVars, nmsgs, mounted, ncalls>>

(* ------------------------------ resumeAudio --------------------------- *)
\* resumeAudio() after its awaits: clear the gesture gate, send the nudge.
ResumeTail ==
  /\ audioContextSuspended' = FALSE
  /\ IF NudgeDue(sessionRef)
     THEN /\ nudgeSent' = TRUE
          /\ wire' = Append(wire, [conn |-> sessionRef, kind |-> "nudge", life |-> lives])
     ELSE UNCHANGED <<nudgeSent, wire>>

InputSuspended ==
  inputAudioContextRef # NULL /\ conn[inputAudioContextRef].inp = "suspended"

\* resumeAudio(), up to its first await (or to its end when nothing is
\* suspended).
ResumeAudio ==
  /\ Command
  /\ IF audioContextRef # NULL /\ conn[audioContextRef].out = "suspended"
     THEN /\ resumes' = Append(resumes, [pc |-> "out", ctx |-> audioContextRef])
          /\ UNCHANGED <<audioContextSuspended, nudgeSent, wire>>
     ELSE IF InputSuspended
     THEN /\ resumes' = Append(resumes, [pc |-> "inp", ctx |-> inputAudioContextRef])
          /\ UNCHANGED <<audioContextSuspended, nudgeSent, wire>>
     ELSE /\ ResumeTail
          /\ UNCHANGED resumes
  /\ UNCHANGED <<isConnected, isConnecting, error, audioContextRef,
                 inputAudioContextRef, streamRef, sessionRef, nconn, conn,
                 lives, playVars, textVars, propVars, capVars, uiVars, nmsgs, mounted>>

\* The output context's resume() settles: it rejects on a closed context
\* (the catch block), otherwise the context runs and the input context is
\* looked at.
ResumeOutDone(i) ==
  /\ resumes[i].pc = "out"
  /\ IF conn[resumes[i].ctx].out = "closed"
     THEN /\ resumes' = Remove(resumes, i)
          /\ UNCHANGED <<audioContextSuspended, nudgeSent, wire, conn>>
     ELSE /\ conn' = [conn EXCEPT ![resumes[i].ctx] = [@ EXCEPT !.out = "running"]]
          /\ IF InputSuspended
             THEN /\ resumes' = [resumes EXCEPT ![i] =
                                   [pc |-> "inp", ctx |-> inputAudioContextRef]]
                  /\ UNCHANGED <<audioContextSuspended, nudgeSent, wire>>
             ELSE /\ resumes' = Remove(resumes, i)
                  /\ ResumeTail
  /\ UNCHANGED <<isConnected, isConnecting, error, audioContextRef,
                 inputAudioContextRef, streamRef, sessionRef, nconn, lives,
                 playVars, textVars, propVars, capVars, uiVars, nmsgs, mounted, ncalls>>

\* The input context's resume() settles.
ResumeInDone(i) ==
  /\ resumes[i].pc = "inp"
  /\ resumes' = Remove(resumes, i)
  /\ IF conn[resumes[i].ctx].inp = "closed"
     THEN UNCHANGED <<audioContextSuspended, nudgeSent, wire, conn>>
     ELSE /\ conn' = [conn EXCEPT ![resumes[i].ctx] = [@ EXCEPT !.inp = "running"]]
          /\ ResumeTail
  /\ UNCHANGED <<isConnected, isConnecting, error, audioContextRef,
                 inputAudioContextRef, streamRef, sessionRef, nconn, lives,
                 playVars, textVars, propVars, capVars, uiVars, nmsgs, mounted, ncalls>>

(* ------------------------------ playback ------------------------------ *)
\* The source has played to its end on its context's clock.
Finished(e) == clock[e.conn] >= e.start + e.dur

\* forEach(s => { try { s.stop() } catch {} }) over the given sources: a
\* source still playing is stopped, a finished one is left as it is.
StopAll(sch, srcs) ==
  [i \in DOMAIN sch |->
     IF i \in srcs /\ sch[i].st = "playing" /\ ~Finished(sch[i])
     THEN [sch[i] EXCEPT !.st = "stopped"]
     ELSE sch[i]]

\* The forced stop-all without the cursor reset.
FlushKeepingCursor(sch, srcs) ==
  /\ sched' = StopAll(sch, srcs)
  /\ audioSources' = {}
  /\ nextStartTime' = nextStartTime
  /\ isModelSpeaking' = FALSE
  /\ textBuffer' = << >>
  /\ flushes' = flushes + 1

\* The forced stop-all of the interrupted branch and of requestNewQuestion:
\* stop every active source, clear the set, reset the cursor, signal "not
\* speaking", clear the live preview.
Flush(sch, srcs) ==
  /\ sched' = StopAll(sch, srcs)
  /\ audioSources' = {}
  /\ nextStartTime' = 0
  /\ isModelSpeaking' = FALSE
  /\ textBuffer' = << >>
  /\ flushes' = flushes + 1

\* The start time taken from the audio clock alone.
StartTimeClockOnly(next, now) == now

\* startTime = Math.max(nextStartTimeRef.current, outputCtx.currentTime)
StartTime(next, now) == Max(next, now)

\* Fragments joined with a space.
AccumulateWithSeparator(acc, frag) ==
  IF acc = << >> THEN frag ELSE acc \o <<" ">> \o frag

\* ref.current += fragment.text
Accumulate(acc, frag) == acc \o frag

\* The updater queued by every message that carries output text.
CommitQueuedOnAnyText(pending, m) == pending \/ m.tc \/ m.out # NoText

\* if (message.serverContent?.turnComplete) setTranscript(updater): the
\* updater is queued by this message, or was queued already.
CommitQueued(pending, m) == pending \/ m.tc

\* The rest of onmessage after the audio parts: output fragment, input
\* fragment, turnComplete, interrupted.  speaking, srcs, next and sch are
\* the values the audio loop of the same run left behind.
MessageTail(m, speaking, srcs, next, sch) ==
  LET out1 == IF m.out # NoText THEN Accumulate(currentOutputTranscription, m.out)
              ELSE currentOutputTranscription
      buf1 == IF m.out # NoText THEN out1 ELSE textBuffer
  IN /\ currentOutputTranscription' = out1
     /\ currentInputTranscription' =
          (IF m.inp # NoText THEN Accumulate(currentInputTranscription, m.inp)
           ELSE currentInputTranscription)
     /\ outFrags' = (IF m.out # NoText THEN Append(outFrags, m.out) ELSE outFrags)
     /\ inFrags' = (IF m.inp # NoText THEN Append(inFrags, m.inp) ELSE inFrags)
     /\ commitPending' = CommitQueued(commitPending, m)
     /\ turnSignalled' = (turnSignalled \/ m.tc)
     /\ atSignal' = (IF m.tc /\ ~turnSignalled
                     THEN [inp |-> currentInputTranscription', out |-> out1]
                     ELSE atSignal)
     /\ IF m.intr
        THEN /\ Flush(sch, srcs)
             /\ freshOut' = << >>
             /\ previews' = {}
        ELSE /\ sched' = sch
             /\ audioSources' = srcs
             /\ nextStartTime' = next
             /\ isModelSpeaking' = speaking
             /\ textBuffer' = buf1
             /\ flushes' = flushes
             /\ freshOut' = (IF m.out # NoText THEN freshOut \o m.out ELSE freshOut)
             /\ previews' = (IF m.out # NoText THEN previews \cup {buf1} ELSE previews)
     /\ UNCHANGED transcript

\* onmessage, up to the await of the first audio part's decode, or to its
\* end when the message carries no audio.
OnMessage(c, m) ==
  /\ conn[c].sock = "open"
  /\ nmsgs < MaxMsgs
  /\ nparts + m.parts <= MaxParts
  /\ nmsgs' = nmsgs + 1
  /\ IF m.parts > 0
     THEN /\ isModelSpeaking' = TRUE
          /\ handlers' = Append(handlers, [conn |-> c, cur |-> nparts + 1,
                                           lastp |-> nparts + m.parts, msg |-> m,
                                           epoch |-> flushes])
          /\ nparts' = nparts + m.parts
          /\ UNCHANGED <<nextStartTime, audioSources, sched, flushes, textVars>>
     ELSE /\ MessageTail(m, isModelSpeaking, audioSources, nextStartTime, sched)
          /\ UNCHANGED <<handlers, nparts>>
  /\ UNCHANGED <<obsVars, refVars, connVars, clock, failedParts, propVars, capVars, uiVars,
                 mounted, ncalls>>

\* The source started whether or not the decode succeeded.
ScheduledAnyway(ok, sch, e) == Append(sch, e)

\* try { await decodeAudioData(...); source.start(startTime) } catch {}:
\* the log of started sources afterwards.
Scheduled(ok, sch, e) == IF ok THEN Append(sch, e) ELSE sch

\* A decode settles and the handler runs on: schedule the buffer (ok) or
\* log the error (not ok), then the next part's decode or the rest of the
\* handler.
DecodeDone(i, ok, d) ==
  LET h == handlers[i]
      start == StartTime(nextStartTime, clock[h.conn])
      sch1 == Scheduled(ok, sched, [part |-> h.cur, conn |-> h.conn, start |-> start,
                                    dur |-> d, now |-> clock[h.conn],
                                    epoch |-> flushes, st |-> "playing"])
      srcs1 == IF ok THEN audioSources \cup {Len(sched) + 1} ELSE audioSources
      next1 == IF ok THEN start + d ELSE nextStartTime
  IN /\ IF h.cur < h.lastp
        THEN /\ isModelSpeaking' = TRUE
             /\ handlers' = [handlers EXCEPT ![i] = [@ EXCEPT !.cur = @ + 1]]
             /\ sched' = sch1
             /\ audioSources' = srcs1
             /\ nextStartTime' = next1
             /\ UNCHANGED <<flushes, textVars>>
        ELSE /\ handlers' = Remove(handlers, i)
             /\ MessageTail(h.msg, isModelSpeaking, srcs1, next1, sch1)
     /\ failedParts' = (IF ok THEN failedParts ELSE failedParts \cup {h.cur})
     /\ UNCHANGED <<obsVars, refVars, connVars, clock, nparts, propVars, capVars, uiVars, nmsgs,
                    mounted, ncalls>>

\* The output context's clock advances.
Tick(c) ==
  /\ conn[c].out = "running"
  /\ clock[c] < MaxClock
  /\ clock' = [clock EXCEPT ![c] = @ + 1]
  /\ UNCHANGED <<obsVars, refVars, connVars, isModelSpeaking, nextStartTime,
                 audioSources, sched, handlers, nparts, failedParts, flushes, textVars,
                 propVars, capVars, uiVars, nmsgs, mounted, ncalls>>

\* source.onended
OnEnded(s) ==
  /\ \/ sched[s].st = "stopped"
     \/ sched[s].st = "playing" /\ Finished(sched[s])
  /\ sched' = [sched EXCEPT ![s] = [@ EXCEPT !.st = "ended"]]
  /\ audioSources' = audioSources \ {s}
  /\ isModelSpeaking' = (IF audioSources \ {s} = {} THEN FALSE ELSE isModelSpeaking)
  /\ UNCHANGED <<obsVars, refVars, connVars, nextStartTime, clock, handlers,
                 nparts, failedParts, flushes, textVars, propVars, capVars, uiVars, nmsgs,
                 mounted, ncalls>>

\* requestNewQuestion() emptying the user's pending buffer as well.
RequestNewQuestionClearingInput ==
  /\ Command
  /\ IF sessionRef = NULL \/ ~isConnected
     THEN UNCHANGED <<wire, playVars, textVars>>
     ELSE /\ Flush(sched, audioSources)
          /\ currentOutputTranscription' = << >>
          /\ currentInputTranscription' = << >>
          /\ freshOut' = << >>
          /\ previews' = {}
          /\ outFrags' = << >>
          /\ inFrags' = << >>
          /\ atSignal' = NoSignal
          /\ wire' = Append(wire, [conn |-> sessionRef, kind |-> "regen", life |-> lives])
          /\ UNCHANGED <<clock, handlers, nparts, failedParts, transcript,
                         commitPending, turnSignalled>>
  /\ UNCHANGED <<obsVars, refVars, nconn, conn, resumes, lives, propVars, capVars, uiVars, nmsgs, mounted>>

\* requestNewQuestion()
RequestNewQuestion ==
  /\ Command
  /\ IF sessionRef = NULL \/ ~isConnected
     THEN UNCHANGED <<wire, playVars, textVars>>
     ELSE /\ Flush(sched, audioSources)
          /\ currentOutputTranscription' = << >>
          /\ freshOut' = << >>
          /\ previews' = {}
          /\ outFrags' = << >>
          /\ atSignal' = [atSignal EXCEPT !.out = << >>]
          /\ wire' = Append(wire, [conn |-> sessionRef, kind |-> "regen", life |-> lives])
          /\ UNCHANGED <<clock, handlers, nparts, failedParts, transcript,
                         currentInputTranscription, commitPending, turnSignalled,
                         inFrags>>
  /\ UNCHANGED <<obsVars, refVars, nconn, conn, resumes, lives, propVars, capVars, uiVars, nmsgs, mounted>>

(* ------------------------------ transcript ---------------------------- *)
\* newItems with the model's item pushed first.
NewItemsModelFirst(inT, outT) ==
  (IF outT # << >> THEN <<[role |-> "model", text |-> outT]>> ELSE << >>)
  \o (IF inT # << >> THEN <<[role |-> "user", text |-> inT]>> ELSE << >>)

\* newItems with the model's item built from the user's buffer.
NewItemsModelTextFromInput(inT, outT) ==
  (IF inT # << >> THEN <<[role |-> "user", text |-> inT]>> ELSE << >>)
  \o (IF outT # << >> THEN <<[role |-> "model", text |-> inT]>> ELSE << >>)

\* newItems of the setTranscript updater, from the trimmed buffers.
NewItems(inT, outT) ==
  (IF inT # << >> THEN <<[role |-> "user", text |-> inT]>> ELSE << >>)
  \o (IF outT # << >> THEN <<[role |-> "model", text |-> outT]>> ELSE << >>)

\* The updater's result without the previous items.
Replaced(prev, items) == items

\* return [...prev, ...newItems]
Appended(prev, items) == prev \o items

\* React applies the queued setTranscript updater(s).
Render ==
  LET inT == Trim(currentInputTranscription)
      outT == Trim(currentOutputTranscription)
  IN /\ commitPending
     /\ commitPending' = FALSE
     /\ turnSignalled' = FALSE
     /\ transcript' = Appended(transcript, NewItems(inT, outT))
     /\ currentInputTranscription' =
          (IF inT # << >> THEN << >> ELSE currentInputTranscription)
     /\ currentOutputTranscription' =
          (IF outT # << >> THEN << >> ELSE currentOutputTranscription)
     /\ textBuffer' = (IF outT # << >> THEN << >> ELSE textBuffer)
     /\ freshOut' = (IF outT # << >> THEN << >> ELSE freshOut)
     /\ previews' = (IF outT # << >> THEN {} ELSE previews)
     /\ inFrags' = (IF inT # << >> THEN << >> ELSE inFrags)
     /\ outFrags' = (IF outT # << >> THEN << >> ELSE outFrags)
     /\ atSignal' = NoSignal
     /\ UNCHANGED <<obsVars, refVars, connVars, playVars, propVars, capVars, uiVars, nmsgs, mounted, ncalls>>

(* ------------------------------ countdown ----------------------------- *)
\* The dependency array of the timer effect (the time limit never changes
\* while the screen is shown).
TimerDeps ==
  <<isModelSpeaking, isConnected, timeLeft, audioContextSuspended, Len(transcript)>>

\* The candidate's clock runs: the first branch of the timer effect.
Counting ==
  /\ ~isModelSpeaking /\ isConnected /\ ~audioContextSuspended
  /\ Len(transcript) > 0 /\ timeLeft > 0

\* The timer effect of the interview screen: the previous run's cleanup
\* (clearInterval), then the effect body.  React runs it after the render
\* that follows a change of a dependency.
TimerEffect ==
  /\ mounted
  /\ effectDeps # TimerDeps
  /\ effectDeps' = TimerDeps
  /\ IF Counting
     THEN interval' = TRUE /\ UNCHANGED timeLeft
     ELSE /\ interval' = FALSE
          /\ timeLeft' = (IF isModelSpeaking THEN settings ELSE timeLeft)
  /\ UNCHANGED <<obsVars, refVars, connVars, playVars, textVars, propVars, capVars,
                 settings, appVars, fbVars, nmsgs, mounted, ncalls>>

\* The interval fires: setTimeLeft(prev => prev - 1)
TimerFire ==
  /\ interval
  /\ timeLeft > 0 - MaxOverrun
  /\ timeLeft' = timeLeft - 1
  /\ UNCHANGED <<obsVars, refVars, connVars, playVars, textVars, propVars, capVars,
                 settings, interval, effectDeps, appVars, fbVars, nmsgs, mounted, ncalls>>

(* --------------------------------- App -------------------------------- *)
\* Everything the hook and the interview screen own.
hookVars == <<obsVars, refVars, connVars, playVars, textVars, propVars, capVars,
              timerVars, nmsgs, mounted, ncalls>>

\* A feedback screen that is unmounted: its pending request, if any, goes
\* on with isMounted false (the effect's cleanup), its state is discarded.
FeedbackUnmounted ==
  /\ fbStale' = (IF fbPc = "await" THEN fbStale + 1 ELSE fbStale)
  /\ fbPc' = "none"
  /\ fbLoading' = TRUE /\ fbError' = NoError /\ fbReport' = NoReport
  /\ UNCHANGED fbAsked

\* handleStart of the setup screen, up to the await of generateContent, or
\* to its return when no API key is configured.  The start button is
\* enabled while the screen is not researching (and a description is typed).
HandleStart ==
  /\ appState = "SETUP"
  /\ ~isResearching
  /\ nstarts < MaxStarts
  /\ nstarts' = nstarts + 1
  /\ isResearching' = TRUE
  /\ appState' = "RESEARCHING"
  /\ research' = (IF ~apiKey THEN research ELSE research + 1)
  /\ UNCHANGED <<jobDescription, persona, appTranscript, fbVars, hookVars>>

\* What the research call gives: a response with a persona, a response with
\* no text, a response whose text does not parse, a rejection.
ResearchOutcomes == {"persona", "notext", "unparsable", "rejected"}

\* handleStartInterview(jd, s, p) of the App; a job description is
\* represented by its title.  setSettings(s) stores the one time limit of
\* the model, so settings keeps its value.
HandleStartInterview(jd, p) ==
  /\ jobDescription' = jd
  /\ persona' = p
  /\ appState' = "INTERVIEW"

\* generateContent settles and handleStart runs on: take the researched
\* title and persona or fall back, then onStart(...), setIsResearching(false)
\* (on a setup screen that is no longer mounted).
ResearchDone(o) ==
  /\ research > 0
  /\ research' = research - 1
  /\ IF o = "persona"
     THEN HandleStartInterview("researched", "persona")
     ELSE HandleStartInterview("Candidate", NoPersona)
  /\ IF appState = "FEEDBACK" THEN FeedbackUnmounted ELSE UNCHANGED fbVars
  /\ UNCHANGED <<appTranscript, isResearching, nstarts, hookVars>>

\* The transcripts the interview screen ends a session with.
Transcripts == {<< >>, <<[role |-> "model", text |-> <<"a">>]>>}

\* handleEndSession(finalTranscript) of the App; the feedback screen mounts.
HandleEndSession(t) ==
  /\ appState = "INTERVIEW" /\ jobDescription # NoJob
  /\ appTranscript' = t
  /\ appState' = "FEEDBACK"
  /\ fbPc' = "effect"
  /\ fbLoading' = TRUE /\ fbError' = NoError /\ fbReport' = NoReport
  /\ UNCHANGED <<jobDescription, persona, isResearching, research, nstarts,
                 fbStale, fbAsked, hookVars>>

\* handleRestart of the App (the logo, and the buttons of the feedback
\* screen); a setup screen that mounts starts with isResearching false.
HandleRestart ==
  /\ appState' = "SETUP"
  /\ jobDescription' = NoJob
  /\ appTranscript' = << >>
  /\ persona' = NoPersona
  /\ isResearching' = (IF appState # "SETUP" THEN FALSE ELSE isResearching)
  /\ IF appState = "FEEDBACK" THEN FeedbackUnmounted ELSE UNCHANGED fbVars
  /\ UNCHANGED <<research, nstarts, hookVars>>

(* ------------------------------- feedback ----------------------------- *)
\* The finally block without setLoading(false).
LoadingAfterKept(loading) == loading

\* finally { if (isMounted) setLoading(false) }
LoadingAfter(loading) == FALSE

\* The effect of the feedback screen: generateFeedback(), up to the await
\* of generateContent or to an early return.
FeedbackEffect ==
  /\ fbPc = "effect"
  /\ IF appTranscript = << >>
     THEN /\ fbError' = "No interview transcript found to analyze."
          /\ fbLoading' = FALSE
          /\ fbPc' = "done"
          /\ UNCHANGED fbAsked
     ELSE IF ~apiKey
     THEN /\ fbError' = "API Key is missing."
          /\ fbLoading' = FALSE
          /\ fbPc' = "done"
          /\ UNCHANGED fbAsked
     ELSE /\ fbPc' = "await"
          /\ fbAsked' = fbAsked + 1
          /\ UNCHANGED <<fbError, fbLoading>>
  /\ UNCHANGED <<fbReport, fbStale, appVars, hookVars>>

\* What the feedback request gives: the text of a report, the text "null",
\* a text that is not JSON, no text, a rejection.
FeedbackOutcomes == {"report", "null", "garbage", "", "rejected"}

\* JSON.parse(text): the value, or "throws"
Parse(text) ==
  CASE text = "report" -> "report"
    [] text = "null" -> NoReport
    [] OTHER -> "throws"

\* generateContent settles while the screen is mounted: the rest of
\* generateFeedback.
FeedbackDone(o) ==
  /\ fbPc = "await"
  /\ fbPc' = "done"
  /\ IF o = "rejected"
     THEN fbError' = "An unexpected error occurred during analysis." /\ UNCHANGED fbReport
     ELSE IF o = ""
     THEN fbError' = "The AI did not return a response." /\ UNCHANGED fbReport
     ELSE IF Parse(o) = "throws"
     THEN fbError' = "Failed to parse the AI's feedback." /\ UNCHANGED fbReport
     ELSE fbReport' = Parse(o) /\ UNCHANGED fbError
  /\ fbLoading' = LoadingAfter(fbLoading)
  /\ UNCHANGED <<fbStale, fbAsked, appVars, hookVars>>

\* generateContent settles after the screen was unmounted: isMounted is
\* false, nothing is set.
StaleFeedbackDone ==
  /\ fbStale > 0
  /\ fbStale' = fbStale - 1
  /\ UNCHANGED <<fbLoading, fbError, fbReport, fbPc, fbAsked, appVars, hookVars>>

\* if (error || !report): the failure view is shown once loading is over
FailureView == fbError # NoError \/ fbReport = NoReport

(* --------------------------- specifications --------------------------- *)
AudioMsgs ==
  {m \in [parts : 0..MaxPartsPerMsg, out : {NoText}, inp : {NoText},
          tc : {FALSE}, intr : BOOLEAN] : m.parts > 0 \/ m.intr}

TextMsgs ==
  [parts : {0}, out : Fragments \cup {NoText}, inp : Fragments \cup {NoText},
   tc : BOOLEAN, intr : BOOLEAN]

RecvAudio == \E c \in Conns : \E m \in AudioMsgs : OnMessage(c, m)
RecvText == \E c \in Conns : \E m \in TextMsgs : OnMessage(c, m)
Decoded == \E i \in DOMAIN handlers : \E ok \in BOOLEAN : \E d \in Durations :
             DecodeDone(i, ok, d)
Granted == \E c \in Conns : MicGranted(c)
Denied == \E c \in Conns : MicDenied(c)
Opened == \E c \in Conns : OnOpen(c)
OpenedCont == \E c \in Conns : OnOpenCont(c)
Closed == \E c \in Conns : OnClose(c)
Errored == \E c \in Conns : OnError(c)
ResumedOut == \E i \in DOMAIN resumes : ResumeOutDone(i)
ResumedIn == \E i \in DOMAIN resumes : ResumeInDone(i)
Ticked == \E c \in Conns : Tick(c)
Ended == \E s \in DOMAIN sched : OnEnded(s)
Captured == \E c \in Conns : \E b \in Blocks : OnAudioProcess(c, b)

\* One connection opened from the mount effect, then inbound audio.
NextPlay ==
  \/ Mount \/ Granted \/ Opened \/ OpenedCont
  \/ RecvAudio \/ Decoded \/ Ticked \/ Ended

SpecPlay == Init /\ [][NextPlay]_vars

\* One connection opened from the mount effect, then inbound text.
NextText ==
  \/ Mount \/ Granted \/ Opened \/ OpenedCont
  \/ RecvText \/ Render

SpecText == Init /\ [][NextText]_vars

\* The connection lifecycle as the interview screen drives it.
NextConn ==
  \/ Mount \/ RetryClick \/ Granted \/ Denied \/ Opened \/ OpenedCont
  \/ Closed \/ Errored \/ Disconnect
  \/ ResumeAudio \/ ResumedOut \/ ResumedIn

SpecConn == Init /\ [][NextConn]_vars

\* A whole interview as the interview screen drives it: the lifecycle, the
\* regenerate button, inbound text and the transcript commits.
\* A finished exchange (both fragments and turnComplete) or an interruption.
SessionMsgs ==
  {m \in [parts : {0}, out : {NoText, <<"a">>}, inp : {NoText, <<"a">>},
           tc : BOOLEAN, intr : BOOLEAN] :
     \/ m.out # NoText /\ m.inp # NoText /\ m.tc /\ ~m.intr
     \/ m.out = NoText /\ m.inp = NoText /\ ~m.tc /\ m.intr}

RecvTurn == \E c \in Conns : \E m \in SessionMsgs : OnMessage(c, m)

\* The screen is still shown: End Session, which calls disconnect() and
\* leaves the screen, has not been clicked.
Shown == lives = 0

\* The regenerate button, rendered in the main view while connected.
RegenerateClick ==
  /\ Shown /\ error = NoError
  /\ isConnected /\ ~audioContextSuspended /\ ~isConnecting
  /\ RequestNewQuestion

\* The mount effect in a browser that lets audio contexts start running.
MountRunning ==
  /\ ~mounted
  /\ UNCHANGED ncalls
  /\ connect("running")

\* The Retry Connection button while the screen is shown, same browser.
RetryShown ==
  /\ Shown /\ error # NoError
  /\ Command
  /\ connect("running")

NextSession ==
  \/ MountRunning \/ RetryShown \/ Granted \/ Denied \/ Opened \/ OpenedCont
  \/ Closed \/ Errored \/ Disconnect \/ RegenerateClick
  \/ RecvTurn \/ Render

SpecSession == Init /\ [][NextSession]_vars

\* One connection from the mount effect with everything that can happen to
\* it while text arrives: commands, close and error.
\* An output fragment, an input fragment with turnComplete, or an
\* interruption.
TurnMsgs ==
  {m \in [parts : {0}, out : {NoText, <<"a">>}, inp : {NoText, <<"a">>},
           tc : BOOLEAN, intr : BOOLEAN] :
     \/ m.out # NoText /\ m.inp = NoText /\ ~m.tc /\ ~m.intr
     \/ m.out = NoText /\ m.inp # NoText /\ m.tc /\ ~m.intr
     \/ m.out = NoText /\ m.inp = NoText /\ ~m.tc /\ m.intr}

RecvFragment == \E c \in Conns : \E m \in TurnMsgs : OnMessage(c, m)

NextTurn ==
  \/ Mount \/ Granted \/ Opened \/ OpenedCont
  \/ RecvFragment \/ Render
  \/ RequestNewQuestion \/ Disconnect
  \/ ResumeAudio \/ ResumedOut \/ ResumedIn
  \/ Closed \/ Errored

SpecTurn == Init /\ [][NextTurn]_vars

\* One connection with audio and preview text arriving, where the only
\* command invoked is requestNewQuestion, in any state of the connection.
\* One audio part, or an output fragment.
RegenMsgs ==
  {m \in [parts : {0, 1}, out : {NoText, <<"a">>}, inp : {NoText},
           tc : {FALSE}, intr : {FALSE}] : (m.parts = 0) # (m.out = NoText)}

RecvSpeech == \E c \in Conns : \E m \in RegenMsgs : OnMessage(c, m)

NextRegen ==
  \/ Mount \/ Granted \/ Opened \/ OpenedCont
  \/ RecvSpeech \/ Decoded
  \/ RequestNewQuestion
  \/ Closed \/ Errored

SpecRegen == Init /\ [][NextRegen]_vars

\* One connection from the mount effect with the microphone capture running
\* through its whole life: gesture gate, close, error, disconnect.
NextCapture ==
  \/ Mount \/ Granted \/ Opened \/ OpenedCont
  \/ Captured
  \/ ResumeAudio \/ ResumedOut \/ ResumedIn
  \/ Closed \/ Errored \/ Disconnect

SpecCapture == Init /\ [][NextCapture]_vars

\* One audio part.
PartMsgs ==
  [parts : {1}, out : {NoText}, inp : {NoText}, tc : {FALSE}, intr : {FALSE}]

RecvPart == \E c \in Conns : \E m \in PartMsgs : OnMessage(c, m)

\* connect() called again after a disconnect().
Reconnect == lives > 0 /\ Retry

\* Audio on a connection, disconnect(), a new connection, audio again.
NextReplay ==
  \/ Mount \/ Granted \/ Opened \/ OpenedCont
  \/ RecvPart \/ Decoded \/ Ticked
  \/ Disconnect \/ Reconnect

SpecReplay == Init /\ [][NextReplay]_vars

\* Messages with audio parts and any of the other facets.
MixedMsgs ==
  [parts : 1..MaxPartsPerMsg, out : {NoText, <<"a">>}, inp : {NoText},
   tc : BOOLEAN, intr : BOOLEAN]

RecvMixed == \E c \in Conns : \E m \in MixedMsgs : OnMessage(c, m)

\* One connection receiving audio together with text, turnComplete and
\* interrupted, with decodes that succeed or fail.
NextDecode ==
  \/ Mount \/ Granted \/ Opened \/ OpenedCont
  \/ RecvMixed \/ Decoded \/ Render

SpecDecode == Init /\ [][NextDecode]_vars

\* One audio part, or an output fragment that ends the turn.
TimedMsgs ==
  {m \in [parts : {0, 1}, out : {NoText, <<"a">>}, inp : {NoText},
           tc : BOOLEAN, intr : {FALSE}] :
     \/ m.parts = 1 /\ m.out = NoText /\ ~m.tc
     \/ m.parts = 0 /\ m.out # NoText /\ m.tc}

RecvTimed == \E c \in Conns : \E m \in TimedMsgs : OnMessage(c, m)

\* The interview screen during one connection: the model speaks, turns are
\* committed, the countdown effect runs and its interval fires.
NextTimer ==
  \/ MountRunning \/ Granted \/ Opened \/ OpenedCont
  \/ RecvTimed \/ Decoded \/ Ticked \/ Ended \/ Render \/ Closed
  \/ TimerEffect \/ TimerFire

SpecTimer == Init /\ [][NextTimer]_vars

ResearchSettles == \E o \in ResearchOutcomes : ResearchDone(o)
FeedbackSettles == \E o \in FeedbackOutcomes : FeedbackDone(o)
EndSession == \E t \in Transcripts : HandleEndSession(t)

\* The App: setup, research, interview, feedback, restart.
NextApp ==
  \/ HandleStart \/ ResearchSettles \/ EndSession \/ HandleRestart
  \/ FeedbackEffect \/ FeedbackSettles \/ StaleFeedbackDone

\* Every request settles, and React runs the effect of a mounted screen.
SpecApp ==
  /\ Init /\ [][NextApp]_vars
  /\ WF_vars(ResearchSettles)
  /\ WF_vars(FeedbackEffect)
  /\ WF_vars(FeedbackSettles)
  /\ WF_vars(StaleFeedbackDone)

\* The connection lifecycle with retry as a command any caller may invoke.
NextRetry ==
  \/ Mount \/ Retry \/ Granted \/ Denied \/ Opened \/ OpenedCont
  \/ Closed \/ Errored \/ Disconnect
  \/ ResumeAudio \/ ResumedOut \/ ResumedIn

SpecRetry == Init /\ [][NextRetry]_vars

Next ==
  \/ NextConn \/ Retry \/ RequestNewQuestion
  \/ RecvAudio \/ RecvText \/ Decoded \/ Ticked \/ Ended \/ Render
  \/ Captured

Spec == Init /\ [][Next]_vars


(* ------------------------------- claims ------------------------------- *)
Nudges(c, l) ==
  {i \in DOMAIN wire : wire[i].kind = "nudge" /\ wire[i].conn = c /\ wire[i].life = l}

\* C1: every step that handles an `interrupted` message (the only forced
\* stop-all of SpecPlay) ends with ActiveSources empty, "model is speaking"
\* false and the cursor reset, so that a buffer scheduled next on any output
\* context starts at that context's current clock time.
C1_InterruptionClearsPlayback ==
  [][flushes' > flushes =>
       /\ audioSources' = {}
       /\ ~isModelSpeaking'
       /\ \A c \in Conns : StartTime(nextStartTime', clock'[c]) = clock'[c]]_vars

\* C1 witness: an interruption has stopped a buffer whose start time was
\* still in the future, and nothing is left active.
C1_Witness ==
  /\ flushes > 0
  /\ audioSources = {}
  /\ \E s \in DOMAIN sched :
       sched[s].st = "stopped" /\ sched[s].start > clock[sched[s].conn]

\* C2: the live preview only ever shows output fragments received since the
\* last interruption, and a committed model item holds only such fragments.
C2_InterruptionDiscardsPendingModelText ==
  [][/\ textBuffer' = << >> \/ textBuffer' = freshOut'
     /\ \A i \in (Len(transcript) + 1)..Len(transcript') :
          transcript'[i].role = "model" => transcript'[i].text = Trim(freshOut)]_vars

\* C3: when a turn-complete commit is applied, the transcript grows at its
\* end by [user item?, model item?] in that order, each present iff its
\* pending buffer is non-empty after trimming and carrying the trimmed text;
\* groups therefore appear in the order the commits were made.
C3_CommitOrder ==
  [][commitPending /\ ~commitPending' =>
       LET n == Len(transcript)
           new == SubSeq(transcript', n + 1, Len(transcript'))
           u == Trim(currentInputTranscription)
           m == Trim(currentOutputTranscription)
           roles == [i \in DOMAIN new |-> new[i].role]
       IN /\ Len(transcript') >= n
          /\ SubSeq(transcript', 1, n) = transcript
          /\ roles \in {<< >>, <<"user">>, <<"model">>, <<"user", "model">>}
          /\ (\E i \in DOMAIN new : new[i].role = "user") <=> (u # << >>)
          /\ (\E i \in DOMAIN new : new[i].role = "model") <=> (m # << >>)
          /\ \A i \in DOMAIN new :
               new[i].text = (IF new[i].role = "user" THEN u ELSE m)]_vars

\* C3 witness: two commits, the first with both items, the second with the
\* model's item alone.
C3_Witness ==
  /\ Len(transcript) = 3
  /\ transcript[1].role = "user" /\ transcript[2].role = "model"
  /\ transcript[3].role = "model"
  /\ ~commitPending

\* C4: after a turn-complete commit is applied both pending buffers and the
\* live preview are empty.
C4_CommitClearsBuffers ==
  [][commitPending /\ ~commitPending' =>
       /\ currentInputTranscription' = << >>
       /\ currentOutputTranscription' = << >>
       /\ textBuffer' = << >>]_vars

SameEpoch(k) == sched[k].epoch = sched[k + 1].epoch

\* C5 as claimed: with no forced stop-all between them, buffer k+1 starts
\* exactly where buffer k ends, whatever the audio clock did in between.
C5_GaplessAlways ==
  \A k \in 1..(Len(sched) - 1) :
    SameEpoch(k) => sched[k + 1].start = sched[k].start + sched[k].dur

\* C5 amended: with no forced stop-all between them, buffer k+1 starts at
\* the later of buffer k's end and the audio clock's time when buffer k+1
\* is scheduled: back to back unless the clock has already passed the end
\* of buffer k.
C5_GaplessUnlessUnderrun ==
  \A k \in 1..(Len(sched) - 1) :
    SameEpoch(k) =>
      sched[k + 1].start = Max(sched[k].start + sched[k].dur, sched[k + 1].now)

\* C5 witness: two buffers scheduled back to back although the clock
\* advanced between their arrivals.
C5_Witness ==
  /\ Len(sched) = 2
  /\ SameEpoch(1)
  /\ sched[2].now > sched[1].now
  /\ sched[2].start = sched[1].start + sched[1].dur

\* C6: buffers are scheduled in the arrival order of their audio parts, and
\* (within one run of playback) each starts no earlier than the end of the
\* buffer scheduled before it.
C6_ArrivalOrderNoOverlap ==
  \A i \in DOMAIN sched : \A j \in DOMAIN sched :
    i < j =>
      /\ sched[i].part < sched[j].part
      /\ sched[i].epoch = sched[j].epoch =>
           sched[j].start >= sched[i].start + sched[i].dur

\* C7: "model is speaking" is true iff ActiveSources is non-empty.
C7_SpeakingIffActive == isModelSpeaking <=> (audioSources # {})

\* C8: on every connection, within one lifetime (between two disconnects),
\* at most one nudge text intent is sent.
C8_NudgeIdempotent ==
  \A c \in Conns : \A l \in 0..lives : Cardinality(Nudges(c, l)) <= 1

\* C8 witness: on the only connection, opened and nudged, two more
\* resumeAudio calls have run to completion without a disconnect.
C8_Witness ==
  /\ nconn = 1 /\ lives = 0 /\ ncalls >= 2 /\ resumes = << >>
  /\ conn[1].onopen = "done"
  /\ Nudges(1, 0) # {}

\* C9: every connection whose open callback has completed and whose output
\* context is running (no resumeAudio still in flight) has been sent a nudge.
C9_EveryOpenConnectionNudged ==
  \A c \in Conns :
    (conn[c].onopen = "done" /\ conn[c].out = "running" /\ resumes = << >>)
      => \E l \in 0..lives : Nudges(c, l) # {}

\* C10: while the session is connecting or open, or without a credential,
\* no step starts a connection attempt (creates audio contexts, requests the
\* microphone) or touches the connection observables.
C10_ConnectGuarded ==
  [][(isConnecting \/ isConnected \/ ~apiKey) =>
       /\ nconn' = nconn
       /\ audioContextRef' = audioContextRef
       /\ inputAudioContextRef' = inputAudioContextRef]_vars

\* C11: the session handle is held only while the connection is open, and
\* is then the handle of a session whose socket is open.
C11_HandleOnlyWhileOpen ==
  sessionRef # NULL => (isConnected /\ conn[sessionRef].sock = "open")

\* The close callback of some session runs in this step.
CloseFires == \E c \in Conns : conn[c].sock # "closed" /\ conn'[c].sock = "closed"

\* The error callback of some session runs in this step.
ErrorFires == \E c \in Conns : conn[c].sock # "errored" /\ conn'[c].sock = "errored"

\* C12: the step in which a session's close callback runs leaves the hook
\* neither connected nor connecting, with no session handle, and has called
\* onDisconnect once.
C12_CloseClearsAndNotifies ==
  [][CloseFires =>
       /\ ~isConnected' /\ ~isConnecting'
       /\ sessionRef' = NULL
       /\ onDisconnectCalls' = onDisconnectCalls + 1]_vars

\* C13: the step in which a session's error callback runs leaves the hook
\* neither connected nor connecting, with a non-empty error message and no
\* session handle, and has called onDisconnect.
C13_ErrorClearsAndNotifies ==
  [][ErrorFires =>
       /\ ~isConnected' /\ ~isConnecting'
       /\ error' # NoError /\ error' # ""
       /\ sessionRef' = NULL
       /\ onDisconnectCalls' > onDisconnectCalls]_vars

\* connect() fails in this step: getUserMedia rejects, or the session
\* reports an error before it ever opened.
ConnectFails ==
  \E c \in Conns :
    \/ conn[c].pc = "mic" /\ conn'[c].pc = "failed"
    \/ conn[c].sock = "connecting" /\ conn'[c].sock = "errored"

\* C14: a step in which connect() fails leaves a non-empty error message
\* (the error view is shown) and the hook not connecting; and a connection
\* attempt is only ever started by the mount effect or by a command of the
\* user (the retry button), never by the hook on its own.
C14_FailureIsReportedAndNotRetried ==
  [][/\ ConnectFails =>
          (error' # NoError /\ error' # "" /\ ~isConnecting')
     /\ nconn' > nconn => (~mounted \/ ncalls' > ncalls)]_vars

\* C14 witness: the first attempt failed at the microphone, the error is
\* shown, and nothing has started a second attempt.
C14_Witness ==
  /\ nconn = 1 /\ conn[1].pc = "failed"
  /\ error = "Connection failed." /\ ~isConnecting /\ ncalls > 0

\* C15: in every step the previous transcript is a prefix of the new one.
C15_TranscriptAppendOnly ==
  [][/\ Len(transcript') >= Len(transcript)
     /\ SubSeq(transcript', 1, Len(transcript)) = transcript]_vars

\* C15 witness: after a committed exchange the session failed, a retry
\* opened a second session, and the committed items are still there.
C15_Witness ==
  /\ Len(transcript) >= 2
  /\ nconn = 2 /\ conn[1].sock \in {"errored", "closed"}
  /\ error = NoError /\ isConnected

IsPrefix(p, t) == Len(p) <= Len(t) /\ SubSeq(t, 1, Len(p)) = p

\* A model item is committed in this step.
ModelCommitted ==
  /\ Len(transcript') > Len(transcript)
  /\ transcript'[Len(transcript')].role = "model"

\* C17 as stated: when a model item is committed, every preview text shown
\* since the model's pending text was last committed or discarded by an
\* interruption is a prefix of the committed text.
C17_PreviewPrefixOfCommit ==
  [][ModelCommitted =>
       \A p \in previews : IsPrefix(p, transcript'[Len(transcript')].text)]_vars

\* C17 amended: every such preview, once trimmed of surrounding whitespace,
\* is a prefix of the committed text.
C17_TrimmedPreviewPrefixOfCommit ==
  [][ModelCommitted =>
       \A p \in previews : IsPrefix(Trim(p), transcript'[Len(transcript')].text)]_vars

\* C17 witness: a commit is about to be applied for a model turn whose
\* previews grew over two fragments, the first of them whitespace.
C17_Witness ==
  /\ commitPending
  /\ Cardinality(previews) = 2
  /\ textBuffer = <<" ", "a">>
  /\ currentOutputTranscription = textBuffer

\* C18: a requestNewQuestion() call (the only command of SpecRegen) made
\* while the hook is connected and holds a session empties the active
\* sources, resets the cursor, clears 'model is speaking', the preview and
\* the model's pending buffer, sends exactly one text intent on the held
\* session and leaves the connection state alone; made in any other state it
\* changes nothing.
C18_RegenerateOnlyWhileOpen ==
  [][ncalls' > ncalls =>
       IF isConnected /\ sessionRef # NULL
       THEN /\ audioSources' = {}
            /\ nextStartTime' = 0
            /\ ~isModelSpeaking'
            /\ textBuffer' = << >>
            /\ currentOutputTranscription' = << >>
            /\ wire' = Append(wire, wire'[Len(wire')])
            /\ wire'[Len(wire')].kind = "regen"
            /\ wire'[Len(wire')].conn = sessionRef
            /\ UNCHANGED <<obsVars, refVars, nconn, conn>>
       ELSE UNCHANGED <<obsVars, refVars, connVars, playVars, textVars,
                        propVars, capVars, nmsgs, mounted>>]_vars

\* C18 witness: a regenerate request was sent while a source was playing
\* (it has been stopped by the request), and the session is still open.
C18_Witness ==
  /\ \E i \in 1..Len(wire) : wire[i].kind = "regen"
  /\ \E s \in 1..Len(sched) : sched[s].st = "stopped"
  /\ flushes = 1 /\ isConnected /\ nextStartTime = 0

\* What a disconnect() leaves behind: the flags and the nudge guard down,
\* the contexts the hook holds closed, the stream it holds stopped.
Released ==
  /\ ~isConnected /\ ~isConnecting /\ ~nudgeSent
  /\ audioContextRef # NULL => conn[audioContextRef].out = "closed"
  /\ inputAudioContextRef # NULL => conn[inputAudioContextRef].inp = "closed"
  /\ streamRef # NULL => conn[streamRef].mic = "stopped"

C20_DisconnectLeavesIdle ==
  [][lives' > lives =>
       /\ ~isConnecting' /\ ~isConnected'
       /\ error' = NoError
       /\ ~nudgeSent']_vars

\* Every asynchronous step of attempt c has finished: connect() is past
\* getUserMedia, the session has opened or failed, onopen has run.
Settled(c) ==
  /\ conn[c].pc \in {"done", "failed"}
  /\ conn[c].sock # "connecting"
  /\ conn[c].onopen # "await"

\* C21: once disconnect() has been called and the one connect() made before
\* it has finished all of its asynchronous steps, no microphone track is
\* live, no audio context is open and the hook is not connected.
C21_TeardownReleasesEverything ==
  (lives > 0 /\ nconn = 1 /\ Settled(1) /\ resumes = << >>) =>
     /\ conn[1].mic # "live"
     /\ conn[1].out \in {"none", "closed"}
     /\ conn[1].inp \in {"none", "closed"}
     /\ ~isConnected

\* A media intent is sent in this step.
MediaSent == Len(media') > Len(media)

\* C22: a media intent is sent only in a state that is open (connected, not
\* connecting, no error), on a session whose socket is open, and with the
\* output context not suspended.
C22_MediaOnlyWhileOpen ==
  [][MediaSent =>
       /\ isConnected /\ ~isConnecting /\ error = NoError
       /\ sessionRef # NULL /\ conn[sessionRef].sock = "open"
       /\ conn[audioContextRef].out # "suspended"]_vars

\* C23: a block captured while the hook is connected, holds its session and
\* the output context runs is published as the amplitude, and is sent as a
\* media intent, after all earlier ones, exactly when its mean square is
\* above the square of the threshold.
C23_SentIffAboveThreshold ==
  [][(nblocks' > nblocks /\ isConnected /\ sessionRef # NULL
        /\ conn[sessionRef].out = "running") =>
       LET k == Len(captured')
           b == captured'[k]
           loud == SumSq(b) > SILENCE_THRESHOLD * SILENCE_THRESHOLD * Len(b)
       IN /\ currentVolume' = [sq |-> SumSq(b), n |-> Len(b)]
          /\ media' = (IF loud
                       THEN Append(media, [conn |-> sessionRef, block |-> k,
                                           life |-> lives])
                       ELSE media)]_vars

\* C23 witness: a quiet block then a loud one were captured on the open
\* session; only the second was sent, and its amplitude is the published one.
C23_Witness ==
  /\ isConnected /\ sessionRef = 1 /\ conn[1].out = "running"
  /\ captured = << <<3, 4>>, <<5, 6>> >>
  /\ Len(media) = 1 /\ media[1].block = 2
  /\ currentVolume = [sq |-> 61, n |-> 2]

\* C24: the hook becomes connected only from connecting, and an error
\* message appears only from connecting or connected; in particular no
\* callback of an attempt moves the state after a disconnect() has left it
\* idle.
C24_PhaseOrder ==
  [][/\ (~isConnected /\ isConnected') => isConnecting
     /\ (error = NoError /\ error' # NoError) => (isConnecting \/ isConnected)]_vars

\* C25: the first buffer scheduled on a connection made after a
\* disconnect() starts at that connection's audio clock time, not at a
\* cursor value left by the connection before it.
C25_CursorFreshAfterReconnect ==
  \A k \in DOMAIN sched :
    (sched[k].conn > 1 /\ \A j \in 1..(k - 1) : sched[j].conn # sched[k].conn)
      => sched[k].start = sched[k].now

\* C26: no part whose decode failed is ever among the started sources; and
\* the step in which a decode fails changes neither the connection
\* observables, the refs nor the transcript, adds no active source, and
\* carries the handler on: to the decode of the next part, or, after the
\* last part, through the text, turnComplete and interrupted facets of the
\* same message.
C26_DecodeFailureContained ==
  [][/\ \A k \in DOMAIN sched' : sched'[k].part \notin failedParts'
     /\ failedParts' # failedParts =>
          \E i \in DOMAIN handlers :
            LET h == handlers[i]
                m == h.msg
            IN /\ failedParts' = failedParts \cup {h.cur}
               /\ UNCHANGED <<obsVars, refVars, conn, transcript, nmsgs>>
               /\ audioSources' \subseteq audioSources
               /\ Len(sched') = Len(sched)
               /\ IF h.cur < h.lastp
                  THEN /\ handlers' = [handlers EXCEPT ![i] = [@ EXCEPT !.cur = h.cur + 1]]
                       /\ UNCHANGED <<textVars, nextStartTime, audioSources>>
                  ELSE /\ handlers' = Remove(handlers, i)
                       /\ currentOutputTranscription' = currentOutputTranscription \o m.out
                       /\ currentInputTranscription' = currentInputTranscription \o m.inp
                       /\ commitPending' = (commitPending \/ m.tc)
                       /\ IF m.intr
                          THEN audioSources' = {} /\ nextStartTime' = 0 /\ ~isModelSpeaking'
                          ELSE UNCHANGED <<audioSources, nextStartTime>>]_vars

\* C26 witness: the first audio part failed to decode, output text of a
\* message reached the buffer, and the part of a later message was decoded
\* and started.
C26_Witness ==
  /\ failedParts = {1}
  /\ \E k \in DOMAIN sched : sched[k].part = 2
  /\ currentOutputTranscription # << >>
  /\ nmsgs = 2

\* The completion callback of a source that a forced stop had stopped runs
\* in this step.
StaleEnded ==
  \E s \in DOMAIN sched : sched[s].st = "stopped" /\ sched'[s].st = "ended"

\* C27: the completion callback of a source stopped by a forced stop removes
\* no source from the active set and leaves the 'model is speaking' flag as
\* the audio received since the stop has set it.
C27_StaleCompletionHarmless ==
  [][StaleEnded =>
       /\ audioSources' = audioSources
       /\ isModelSpeaking' = isModelSpeaking]_vars

\* C28: a source is started only for an audio part received after the last
\* forced stop: the handler that starts it was created in the current flush
\* epoch.
C28_NoStaleSpeechAfterInterruption ==
  [][Len(sched') > Len(sched) =>
       \E i \in DOMAIN handlers :
         /\ handlers[i].cur = sched'[Len(sched')].part
         /\ handlers[i].epoch = flushes]_vars

RECURSIVE Flatten(_)
\* The fragments of a log joined with nothing in between.
Flatten(log) == IF log = << >> THEN << >> ELSE Head(log) \o Flatten(Tail(log))

\* C29: every item a commit appends carries the fragments received for its
\* role since that role's buffer was last emptied, joined in arrival order
\* with nothing in between and trimmed; and a committed model item leaves
\* the live preview empty.
C29_ItemIsTrimmedConcatenation ==
  [][Len(transcript') > Len(transcript) =>
       /\ \A k \in (Len(transcript) + 1)..Len(transcript') :
            /\ transcript'[k].text =
                 Trim(Flatten(IF transcript'[k].role = "user" THEN inFrags ELSE outFrags))
            /\ transcript'[k].text # << >>
       /\ Len(transcript') - Len(transcript) <= 2
       /\ ModelCommitted => textBuffer' = << >>]_vars

\* C29 witness: two output fragments were committed as one model item with
\* nothing between them, and the preview is empty.
C29_Witness ==
  /\ Len(transcript) = 1
  /\ transcript[1] = [role |-> "model", text |-> <<"a", "a">>]
  /\ textBuffer = << >> /\ outFrags = << >> /\ nmsgs = 2

\* C30: a block is processed only on an attempt whose microphone was granted
\* and whose session has opened; and once disconnect() has been called no
\* microphone track is live and no further block is processed.
C30_CaptureBetweenOpenAndDisconnect ==
  [][/\ nblocks' > nblocks =>
          \E c \in Conns : /\ conn[c].mic # "none"
                           /\ conn[c].sock \in {"open", "errored", "closed"}
     /\ lives' > 0 => \A c \in Conns : conn'[c].mic # "live"
     /\ lives > 0 => nblocks' = nblocks]_vars

\* What is left pending of the buffer cur once the text sig, which it began
\* with when the turn-complete was handled, has been committed (a text that
\* trims to nothing is not committed and stays).
LeftPending(sig, cur, after) ==
  IF Trim(sig) = << >> THEN after = cur ELSE sig \o after = cur

\* C31: when a turn-complete commit is applied, the items it adds carry the
\* pending text as it was when that turn-complete was handled, and every
\* fragment that arrived after the signal is still pending afterwards.
C31_CommitHoldsOnlyEarlierFragments ==
  [][commitPending /\ ~commitPending' =>
       /\ SubSeq(transcript', Len(transcript) + 1, Len(transcript')) =
            NewItems(Trim(atSignal.inp), Trim(atSignal.out))
       /\ LeftPending(atSignal.inp, currentInputTranscription,
                      currentInputTranscription')
       /\ LeftPending(atSignal.out, currentOutputTranscription,
                      currentOutputTranscription')]_vars

\* disconnect() has closed the output context of attempt c.
TornDown(c) == conn[c].out = "closed"

\* C32: no text intent and no media intent is ever sent on the session of a
\* connection that disconnect() has torn down.
C32_NothingSentAfterDisconnect ==
  [][/\ \A i \in (Len(wire) + 1)..Len(wire') : ~TornDown(wire'[i].conn)
     /\ \A i \in (Len(media) + 1)..Len(media') : ~TornDown(media'[i].conn)]_vars

\* The attempts whose output or input context exists and is not closed.
OpenContexts ==
  {c \in Conns : \/ conn[c].out \notin {"none", "closed"}
                 \/ conn[c].inp \notin {"none", "closed"}}

\* The attempts whose microphone stream has a live track.
LiveStreams == {c \in Conns : conn[c].mic = "live"}

\* C33: at any time at most one attempt's audio-context pair is unclosed and
\* at most one attempt's microphone stream is live.
C33_OneResourceSetAtATime ==
  /\ Cardinality(OpenContexts) <= 1
  /\ Cardinality(LiveStreams) <= 1

\* C34: isConnecting and isConnected are never both true, and an error
\* message is shown only while both are false.
C34_PhaseFlagsExclusive ==
  /\ ~(isConnecting /\ isConnected)
  /\ error # NoError => ~isConnecting /\ ~isConnected

\* C35: a step that runs the forced stop-all (an interruption, or
\* requestNewQuestion on an open session) changes neither the committed
\* transcript, nor the user's pending buffer, nor the connection state, nor
\* the session handle, nor the nudge guard.
C35_FlushFrame ==
  [][flushes' > flushes =>
       UNCHANGED <<transcript, currentInputTranscription, isConnected,
                   isConnecting, error, conn, sessionRef, nudgeSent>>]_vars

\* C35 witness: a stop-all has run and a regenerate was sent on a session
\* that is still connected, with a committed item, user text pending and the
\* nudge guard set.
C35_Witness ==
  /\ flushes > 0
  /\ \E i \in DOMAIN wire : wire[i].kind = "regen"
  /\ transcript # << >>
  /\ currentInputTranscription # << >>
  /\ isConnected /\ sessionRef # NULL /\ nudgeSent

\* C36: the countdown stays within 0..timeLimitSeconds; it goes down only by
\* one, and only from a state where the model is not speaking, the session
\* is connected, audio is not suspended, the transcript is non-empty and time
\* is left; and a run of the timer effect while the model is speaking leaves
\* it at timeLimitSeconds.
C36_CountdownInRange ==
  [][/\ timeLeft' \in 0..settings
     /\ timeLeft' < timeLeft => timeLeft' = timeLeft - 1 /\ Counting
     /\ (effectDeps' # effectDeps /\ isModelSpeaking) => timeLeft' = settings]_vars

\* C37: whenever the app is in RESEARCHING, it is eventually in INTERVIEW
\* with a job description set, unless the user restarts first.
C37_ResearchLeadsToInterview ==
  (appState = "RESEARCHING") ~>
     \/ appState = "INTERVIEW" /\ jobDescription # NoJob
     \/ appState = "SETUP"

\* C38: a step that brings the app back to SETUP leaves the job description,
\* the transcript and the persona cleared, and the app leaves SETUP only by
\* the user starting an interview, which takes it to RESEARCHING.
C38_RestartHolds ==
  [][/\ (appState # "SETUP" /\ appState' = "SETUP") =>
          /\ jobDescription' = NoJob
          /\ appTranscript' = << >>
          /\ persona' = NoPersona
     /\ (appState = "SETUP" /\ appState' # "SETUP") =>
          /\ appState' = "RESEARCHING"
          /\ nstarts' > nstarts]_vars

=============================================================================
